---- MODULE Spec2Model ----
(***************************************************************************)
(* Model of the validation engine of csv-health-tracker                    *)
(* (src/v2-modular/validation.py, class CSVValidator).                      *)
(*                                                                         *)
(* One call of CSVValidator.validate_all is a linear state machine whose   *)
(* position is pc; every stage of the call (validate_file_path, load_csv,  *)
(* get_basic_info, check_column_headers, check_empty_rows_columns,         *)
(* check_duplicate_rows, check_missing_values, check_whitespace_pollution, *)
(* the final return) is one action.  The filesystem entry behind the path  *)
(* and the configuration are the inputs of the call.                       *)
(*                                                                         *)
(* Further specifications run single operations on their own inputs:       *)
(* load_csv (SpecLoad), check_column_headers (SpecHeaders), the duplicate  *)
(* and whitespace checks on longer tables (SpecDup, SpecWs), the report    *)
(* renderer of report.py after validate_all (SpecReport), load_config of   *)
(* config.py (SpecConfig), a try statement with one handler over the error *)
(* kinds of exceptions.py (SpecCatch), main of main.py around validate_all *)
(* and the renderer (SpecMain), validate_all called again on the same      *)
(* validator (SpecReuse) and validate_all on paths of any sort, with       *)
(* fairness (SpecPaths).                                                   *)
(***************************************************************************)
EXTENDS Integers, Sequences, FiniteSets, TLC

VARIABLES
    fs,         \* the filesystem entry the path argument names (input)
    config,     \* self.config: the configuration load_config returned
    file_path,  \* self.file_path
    validated_path, \* the local validated_path of validate_all
    df,         \* self.df
    pc,         \* position inside validate_all
    results,    \* the local dict `results` of validate_all
    outcome,    \* what the caller of validate_all receives
    report,     \* what the caller of generate_report receives
    caller,     \* the code around the call: main's arguments, surroundings
                \* and exit code, the handler of a try statement, or the
                \* number of calls made on the validator
    trace,      \* history: the stages this call has started, in order
    log         \* history: the warning/error/verdict messages logged

vars ==
    <<fs, config, file_path, validated_path, df, pc, results, outcome, report, caller,
      trace, log>>

(***************************************************************************)
(* Bounds of the model.                                                    *)
(***************************************************************************)
MaxRows == 2        \* rows of a table fed to validate_all
MaxDupRows == 4     \* rows of a table fed to check_duplicate_rows alone
MaxWsRows == 4      \* rows of a table fed to check_whitespace_pollution alone
MaxLabels == 3      \* columns of a frame fed to check_column_headers alone

(***************************************************************************)
(* Values.                                                                 *)
(***************************************************************************)
None == [kind |-> "None"]

\* Text is a sequence of one-character strings, so that lower() and strip()
\* are computed and not assumed.
Whitespace == {" ", "\t"}
CsvSuffix == <<".", "c", "s", "v">>
Suffixes == {CsvSuffix, <<".", "C", "S", "V">>, <<".", "t", "x", "t">>}

\* str.lower() on one character.
LowerChar(c) ==
    CASE c = "C" -> "c"
      [] c = "S" -> "s"
      [] c = "V" -> "v"
      [] OTHER -> c

\* A comparison that keeps the case of the suffix.
LowerKeepsCase(s) == s

\* str.lower()
Lower(s) == [i \in 1..Len(s) |-> LowerChar(s[i])]

RECURSIVE LStrip(_)
\* str.lstrip(): drop the leading whitespace characters.
LStrip(s) ==
    IF s # <<>> /\ Head(s) \in Whitespace THEN LStrip(Tail(s)) ELSE s

RECURSIVE RStrip(_)
\* str.rstrip(): drop the trailing whitespace characters.
RStrip(s) ==
    IF s # <<>> /\ s[Len(s)] \in Whitespace
    THEN RStrip(SubSeq(s, 1, Len(s) - 1))
    ELSE s

\* str.strip()
Strip(s) == RStrip(LStrip(s))

\* Cells of a DataFrame.
NaN == [kind |-> "null", val |-> <<>>]
StrCell(s) == [kind |-> "str", val |-> s]
NumCell(d) == [kind |-> "num", val |-> <<d>>]
BoolCell(b) == [kind |-> "bool", val |-> <<b>>]

\* pandas.isna on one cell.
IsNa(c) == c.kind = "null"

\* isinstance(x, str)
IsStr(c) == c.kind = "str"

\* Column labels: text taken from the header row, or a positional integer.
StrLabel(s) == [type |-> "str", id |-> s]
IntLabel(s) == [type |-> "int", id |-> s]

\* isinstance(col, int)
IsIntLabel(l) == l.type = "int"

\* A DataFrame: its column labels and its rows (each row one cell per column).
DataFrame(names, rows) == [names |-> names, rows |-> rows]

\* len(df)
NRows(t) == Len(t.rows)

\* len(df.columns)
NCols(t) == Len(t.names)

\* df[col] by position: the cells of column j, top to bottom.
Column(t, j) == [i \in 1..NRows(t) |-> t.rows[i][j]]

\* The dtype pandas.read_csv infers for a parsed column: object as soon as a
\* cell is text, or when booleans are mixed with missing cells, or when there
\* is no row at all; bool for booleans only; a numeric dtype otherwise
\* (missing cells alone give float64).
DtypeOf(col) ==
    LET kinds == {col[i].kind : i \in 1..Len(col)} IN
    IF kinds = {} THEN "object"
    ELSE IF "str" \in kinds THEN "object"
    ELSE IF kinds = {"bool"} THEN "bool"
    ELSE IF "bool" \in kinds THEN "object"
    ELSE IF "null" \in kinds THEN "float64"
    ELSE "int64"

\* df.dtypes, by column position.
Dtypes(t) == [j \in 1..NCols(t) |-> DtypeOf(Column(t, j))]

\* The quotient taken without looking at the total: a zero denominator is the
\* division by zero.
PctUnguarded(count, total) == [num |-> count * 100, den |-> total]

\* A percentage count / total * 100, kept exact as a fraction num/den.
Pct(count, total) ==
    IF total > 0 THEN [num |-> count * 100, den |-> total]
    ELSE [num |-> 0, den |-> 1]

\* pct > threshold
PctGT(p, threshold) == p.num > threshold * p.den

\* pct == value
PctEq(p, value) == p.num = value * p.den

(***************************************************************************)
(* The checks, as the code computes them.                                  *)
(***************************************************************************)

\* duplicated(keep=False): every row that has an equal row elsewhere is marked.
DuplicatedKeepNone(t) ==
    [i \in 1..NRows(t) |-> \E j \in 1..NRows(t) : j # i /\ t.rows[j] = t.rows[i]]

\* df.duplicated() with the default keep='first': row i is marked when an
\* earlier row holds the same cells (missing cells compare equal).
Duplicated(t) ==
    [i \in 1..NRows(t) |-> \E j \in 1..(i - 1) : t.rows[j] = t.rows[i]]

\* A count that takes every copy of a repeated row, the first one included.
NumDuplicatesCountsEveryCopy(t) ==
    Cardinality({i \in 1..NRows(t) :
                    \E j \in 1..NRows(t) : j # i /\ t.rows[j] = t.rows[i]})

\* num_duplicates = self.df.duplicated().sum()
NumDuplicates(t) == Cardinality({i \in 1..NRows(t) : Duplicated(t)[i]})

\* duplicate_pct = (num_duplicates / total_rows * 100) if total_rows > 0 else 0
DuplicatePct(t) == Pct(NumDuplicates(t), NRows(t))

\* A gate that also fails at the threshold: duplicate_pct >= max_duplicate_pct
DuplicateGateFailsAtThreshold(pct, max_duplicate_pct) ==
    pct.num >= max_duplicate_pct * pct.den

\* the gate of check_duplicate_rows: duplicate_pct > max_duplicate_pct
DuplicateGateFails(pct, max_duplicate_pct) == PctGT(pct, max_duplicate_pct)

\* The columns that hold some missing cell: isna().any() in place of all().
EmptyColumnsAnyMissing(t) ==
    LET keep == {j \in 1..NCols(t) : \E i \in 1..NRows(t) : IsNa(t.rows[i][j])}
        F[j \in 0..NCols(t)] ==
            IF j = 0 THEN <<>>
            ELSE IF j \in keep THEN Append(F[j - 1], t.names[j]) ELSE F[j - 1]
    IN F[NCols(t)]

\* self.df.columns[self.df.isna().all()].tolist()
EmptyColumns(t) ==
    LET keep == {j \in 1..NCols(t) : \A i \in 1..NRows(t) : IsNa(t.rows[i][j])}
        F[j \in 0..NCols(t)] ==
            IF j = 0 THEN <<>>
            ELSE IF j \in keep THEN Append(F[j - 1], t.names[j]) ELSE F[j - 1]
    IN F[NCols(t)]

\* The rows that hold some missing cell: isna().any(axis=1) in place of all.
NumEmptyRowsAnyMissing(t) ==
    Cardinality({i \in 1..NRows(t) : \E j \in 1..NCols(t) : IsNa(t.rows[i][j])})

\* len(self.df[self.df.isna().all(axis=1)])
NumEmptyRows(t) ==
    Cardinality({i \in 1..NRows(t) : \A j \in 1..NCols(t) : IsNa(t.rows[i][j])})

\* missing_count = self.df[col].isna().sum()
MissingCount(t, j) == Cardinality({i \in 1..NRows(t) : IsNa(t.rows[i][j])})

\* missing_pct = (missing_count / len(self.df) * 100) if len(self.df) > 0 else 0
MissingPct(t, j) == Pct(MissingCount(t, j), NRows(t))

\* "Column '{col}': {pct:.2f}% > {threshold}%": one line of an error message.
Violation(col, pct, threshold) ==
    [col |-> col, pct |-> pct, threshold |-> threshold]

RECURSIVE MissingValuesLoop(_, _, _)
\* The for loop of check_missing_values after its first j iterations: the
\* dict missing_by_column (in insertion order) and the list violations.
MissingValuesLoop(t, max_missing_pct, j) ==
    IF j = 0 THEN [by_column |-> <<>>, violations |-> <<>>]
    ELSE LET prev == MissingValuesLoop(t, max_missing_pct, j - 1)
             missing_pct == MissingPct(t, j)
         IN [by_column |->
                 Append(prev.by_column, [col |-> t.names[j], pct |-> missing_pct]),
             violations |->
                 IF PctGT(missing_pct, max_missing_pct)
                 THEN Append(prev.violations,
                             Violation(t.names[j], missing_pct, max_missing_pct))
                 ELSE prev.violations]

\* self.df.select_dtypes(include='object').columns, as column positions.
ObjectColumns(t) ==
    LET F[j \in 0..NCols(t)] ==
            IF j = 0 THEN <<>>
            ELSE IF Dtypes(t)[j] = "object" THEN Append(F[j - 1], j) ELSE F[j - 1]
    IN F[NCols(t)]

\* A test that looks at the front of the text only: x != x.lstrip()
HasLeadingWhitespace(c) == IsStr(c) /\ c.val # LStrip(c.val)

\* lambda x: isinstance(x, str) and x != x.strip()
HasWhitespace(c) == IsStr(c) /\ c.val # Strip(c.val)

\* whitespace_count = has_whitespace.sum()
WhitespaceCount(t, j) ==
    Cardinality({i \in 1..NRows(t) : HasWhitespace(t.rows[i][j])})

\* whitespace_pct = (whitespace_count / len(self.df) * 100) if len(self.df) > 0 else 0
WhitespacePct(t, j) == Pct(WhitespaceCount(t, j), NRows(t))

RECURSIVE WhitespaceLoop(_, _, _)
\* The for loop of check_whitespace_pollution after its first k iterations.
WhitespaceLoop(t, threshold, k) ==
    IF k = 0 THEN [by_column |-> <<>>, violations |-> <<>>]
    ELSE LET prev == WhitespaceLoop(t, threshold, k - 1)
             j == ObjectColumns(t)[k]
             whitespace_pct == WhitespacePct(t, j)
         IN [by_column |->
                 Append(prev.by_column, [col |-> t.names[j], pct |-> whitespace_pct]),
             violations |->
                 IF PctGT(whitespace_pct, threshold)
                 THEN Append(prev.violations,
                             Violation(t.names[j], whitespace_pct, threshold))
                 ELSE prev.violations]

\* self.df.columns[self.df.columns.duplicated()].tolist()
DuplicateColumns(names) ==
    LET F[j \in 0..Len(names)] ==
            IF j = 0 THEN <<>>
            ELSE IF \E k \in 1..(j - 1) : names[k] = names[j]
                 THEN Append(F[j - 1], names[j])
                 ELSE F[j - 1]
    IN F[Len(names)]

\* all(isinstance(col, int) for col in self.df.columns)
HasDefaultNames(names) == \A j \in 1..Len(names) : IsIntLabel(names[j])

(***************************************************************************)
(* Inputs of a run.                                                        *)
(***************************************************************************)

\* Cells a parsed file can hold in the runs explored.
TextValues == {<<"a">>, <<" ", "a">>}
Cells == {NaN, NumCell("1")} \cup {StrCell(s) : s \in TextValues}

\* A column as read_csv returns it: apart from the missing cells, its cells
\* are all text, all numbers or all booleans (a number or a boolean next to
\* a text field stays text).
IsParsedColumn(col) ==
    Cardinality({col[i].kind : i \in 1..Len(col)} \ {"null"}) <= 1

\* Header labels by position (read_csv makes the labels of one file distinct).
ColumnLabels == <<StrLabel("x"), StrLabel("y")>>

\* The DataFrame with the given labels and columns.
FromColumns(names, cols, n) ==
    DataFrame(names, [i \in 1..n |-> [j \in 1..Len(names) |-> cols[j][i]]])

\* The DataFrames with at most maxrows rows whose cells are drawn from cells.
FramesOf(labels, maxrows, cells) ==
    UNION {
        {FromColumns(SubSeq(labels, 1, m), cols, n) :
            cols \in [1..m -> [1..n -> cells]]} :
            m \in 1..Len(labels), n \in 0..maxrows}

\* Those of them whose columns are all as read_csv returns them.
ParsedFramesOf(labels, maxrows, cells) ==
    UNION {
        {FromColumns(SubSeq(labels, 1, m), cols, n) :
            cols \in [1..m -> {c \in [1..n -> cells] : IsParsedColumn(c)}]} :
            m \in 1..Len(labels), n \in 0..maxrows}

\* The tables read_csv can return in the runs explored.
Tables == ParsedFramesOf(ColumnLabels, MaxRows, Cells)

\* The errors pd.read_csv raises on a regular file it cannot turn into a
\* table: malformed rows, undecodable bytes, no read permission, no content.
ReadFailures ==
    {"ParserError", "UnicodeDecodeError", "PermissionError", "EmptyDataError"}

\* What the path names: nothing, a directory, or a regular file that read_csv
\* parses into a table or fails on.
FsEntries ==
    [kind : {"missing", "dir"}, suffix : Suffixes, content : {None}]
    \cup [kind : {"file"}, suffix : Suffixes,
          content : [parses : {FALSE}, cause : ReadFailures]
                    \cup [parses : {TRUE}, table : Tables]]

\* Thresholds explored.
Thresholds == {0, 50}

Configs ==
    [validation : [whitespace_threshold_pct : Thresholds,
                   max_duplicate_pct : Thresholds,
                   max_missing_pct : Thresholds]]

(***************************************************************************)
(* Outcomes, messages.                                                     *)
(***************************************************************************)
NoOutcome == [kind |-> "none"]
Raised(type, msg) == [kind |-> "raised", type |-> type, msg |-> msg]
Returned(value) == [kind |-> "returned", value |-> value]

LogEntry(level, msg) == [level |-> level, msg |-> msg]

\* Path(file_path): the path object, known by its suffix.
PathOf(entry) == [kind |-> "Path", suffix |-> entry.suffix]

\* An order of the stages other than the one validate_all runs them in.
NextStageGatesSwapped(stage) ==
    CASE stage = "path_gate" -> "load"
      [] stage = "load" -> "basic_info"
      [] stage = "basic_info" -> "headers"
      [] stage = "headers" -> "empty_data"
      [] stage = "empty_data" -> "missing_values"
      [] stage = "missing_values" -> "duplicates"
      [] stage = "duplicates" -> "whitespace"
      [] stage = "whitespace" -> "return"

\* The statement order of validate_all: the stage that follows each stage.
NextStage(stage) ==
    CASE stage = "path_gate" -> "load"
      [] stage = "load" -> "basic_info"
      [] stage = "basic_info" -> "headers"
      [] stage = "headers" -> "empty_data"
      [] stage = "empty_data" -> "duplicates"
      [] stage = "duplicates" -> "missing_values"
      [] stage = "missing_values" -> "whitespace"
      [] stage = "whitespace" -> "return"

\* A stage fails and validate_all hands back what it has gathered so far.
RaiseReturnsPartial(stage, type, msg, entries) ==
    /\ outcome' = Returned(results)
    /\ pc' = "failed"
    /\ trace' = Append(trace, stage)
    /\ log' = log \o entries

\* A stage raises: the error reaches the caller of validate_all and the call
\* is over.
Raise(stage, type, msg, entries) ==
    /\ outcome' = Raised(type, msg)
    /\ pc' = "failed"
    /\ trace' = Append(trace, stage)
    /\ log' = log \o entries

\* A stage completes and hands over to the next one.
Goto(stage, next, entries) ==
    /\ pc' = next
    /\ trace' = Append(trace, stage)
    /\ log' = log \o entries
    /\ outcome' = outcome

(***************************************************************************)
(* The stages of validate_all.                                             *)
(***************************************************************************)
Init ==
    /\ fs \in FsEntries
    /\ config \in Configs
    /\ file_path = None
    /\ validated_path = None
    /\ df = None
    /\ pc = "path_gate"
    /\ results = <<>>
    /\ outcome = NoOutcome
    /\ report = None
    /\ caller = None
    /\ trace = <<>>
    /\ log = <<>>

\* validate_file_path that looks at the extension before the existence.
ValidateFilePathSuffixFirst ==
    /\ pc = "path_gate"
    /\ IF Lower(PathOf(fs).suffix) # CsvSuffix
       THEN /\ Raise("path_gate", "InvalidCSVFormatError", PathOf(fs),
                     <<LogEntry("error", <<"File is not a CSV", PathOf(fs)>>)>>)
            /\ UNCHANGED <<file_path, validated_path>>
       ELSE IF fs.kind = "missing"
            THEN /\ Raise("path_gate", "CSVNotFoundError", PathOf(fs),
                          <<LogEntry("error", <<"File not found", PathOf(fs)>>)>>)
                 /\ UNCHANGED <<file_path, validated_path>>
            ELSE /\ file_path' = PathOf(fs)
                 /\ validated_path' = PathOf(fs)
                 /\ Goto("path_gate", NextStage("path_gate"),
                         <<LogEntry("info", <<"File path validation passed">>)>>)
    /\ UNCHANGED <<fs, config, report, caller, df, results>>

\* validate_file_path(file_path).  Path.exists() answers False when stat
\* finds nothing; when stat fails for another reason (a name longer than
\* the file system allows, a directory that may not be searched) it
\* re-raises the OSError on the interpreters whose pathlib filters the
\* errno, and answers False on those that ask os.path.exists.
ValidateFilePath ==
    /\ pc = "path_gate"
    /\ IF fs.kind = "unstatable"
       THEN /\ \E raised \in {"OSError", "CSVNotFoundError"} :
                   Raise("path_gate", raised, PathOf(fs),
                         IF raised = "OSError" THEN <<>>
                         ELSE <<LogEntry("error", <<"File not found", PathOf(fs)>>)>>)
            /\ UNCHANGED <<file_path, validated_path>>
       ELSE IF fs.kind = "missing"
       THEN /\ Raise("path_gate", "CSVNotFoundError", PathOf(fs),
                     <<LogEntry("error", <<"File not found", PathOf(fs)>>)>>)
            /\ UNCHANGED <<file_path, validated_path>>
       ELSE LET not_file ==
                    IF fs.kind # "file"
                    THEN <<LogEntry("error", <<"Path is a directory", PathOf(fs)>>)>>
                    ELSE <<>>
            IN IF Lower(PathOf(fs).suffix) # CsvSuffix
               THEN /\ Raise("path_gate", "InvalidCSVFormatError", PathOf(fs),
                             not_file \o
                             <<LogEntry("error", <<"File is not a CSV", PathOf(fs)>>)>>)
                    /\ UNCHANGED <<file_path, validated_path>>
               ELSE /\ file_path' = PathOf(fs)
                    /\ validated_path' = PathOf(fs)
                    /\ Goto("path_gate", NextStage("path_gate"),
                            not_file \o
                            <<LogEntry("info", <<"File path validation passed">>)>>)
    /\ UNCHANGED <<fs, config, report, caller, df, results>>

\* pd.read_csv(path) succeeds: the path names a regular file that parses.
ReadCsvParses(path) ==
    path = PathOf(fs) /\ fs.kind = "file" /\ fs.content.parses

\* pd.read_csv(path) does not come back: opening a named pipe for reading
\* waits for a writer.
ReadCsvBlocks(path) ==
    path = PathOf(fs) /\ fs.kind = "fifo"

\* The exception pd.read_csv(path) raises when it does not succeed.
ReadCsvFailure(path) ==
    CASE fs.kind = "missing" -> "FileNotFoundError"
      [] fs.kind = "dir" -> "IsADirectoryError"
      [] OTHER -> fs.content.cause

\* load_csv whose handler is `except pd.errors.ParserError`: any other
\* failure of the read travels on as it is.
LoadCsvCatchesParserErrorOnly ==
    /\ pc = "load"
    /\ IF ReadCsvParses(validated_path)
       THEN /\ df' = fs.content.table
            /\ Goto("load", NextStage("load"),
                    <<LogEntry("info", <<"CSV loaded successfully">>)>>)
       ELSE LET e == ReadCsvFailure(validated_path) IN
            /\ IF e = "ParserError"
               THEN Raise("load", "CSVReadError", <<"Failed to read CSV file", e>>,
                          <<LogEntry("error", <<"Failed to read CSV", e>>)>>)
               ELSE Raise("load", e, <<e>>, <<>>)
            /\ UNCHANGED df
    /\ UNCHANGED <<fs, config, report, caller, file_path, validated_path, results>>

\* load_csv that logs a failed read and carries on.
LoadCsvSwallowsFailure ==
    /\ pc = "load"
    /\ IF ReadCsvParses(validated_path)
       THEN /\ df' = fs.content.table
            /\ Goto("load", NextStage("load"),
                    <<LogEntry("info", <<"CSV loaded successfully">>)>>)
       ELSE /\ Goto("load", NextStage("load"),
                    <<LogEntry("error", <<"Failed to read CSV", PathOf(fs)>>)>>)
            /\ UNCHANGED df
    /\ UNCHANGED <<fs, config, report, caller, file_path, validated_path, results>>

\* A load_csv that keeps the table the validator already holds.
LoadCsvKeepsLoadedTable ==
    /\ pc = "load"
    /\ IF df # None
       THEN /\ Goto("load", NextStage("load"),
                    <<LogEntry("info", <<"CSV loaded successfully">>)>>)
            /\ UNCHANGED df
       ELSE IF ReadCsvParses(validated_path)
       THEN /\ df' = fs.content.table
            /\ Goto("load", NextStage("load"),
                    <<LogEntry("info", <<"CSV loaded successfully">>)>>)
       ELSE LET e == ReadCsvFailure(validated_path) IN
            /\ Raise("load", "CSVReadError", <<"Failed to read CSV file", e>>,
                     <<LogEntry("error", <<"Failed to read CSV", e>>)>>)
            /\ UNCHANGED df
    /\ UNCHANGED <<fs, config, report, caller, file_path, validated_path, results>>

\* load_csv(validated_path)
LoadCsv ==
    /\ pc = "load"
    /\ ~ ReadCsvBlocks(validated_path)
    /\ IF ReadCsvParses(validated_path)
       THEN /\ df' = fs.content.table
            /\ Goto("load", NextStage("load"),
                    <<LogEntry("info", <<"CSV loaded successfully">>)>>)
       ELSE LET e == ReadCsvFailure(validated_path) IN
            /\ Raise("load", "CSVReadError", <<"Failed to read CSV file", e>>,
                     <<LogEntry("error", <<"Failed to read CSV", e>>)>>)
            /\ UNCHANGED df
    /\ UNCHANGED <<fs, config, report, caller, file_path, validated_path, results>>

\* A shape given as (columns, rows).
BasicInfoShapeTransposed ==
    [filename |-> file_path,
     shape |-> <<NCols(df), NRows(df)>>,
     columns |-> df.names,
     dtypes |-> Dtypes(df)]

\* get_basic_info()
BasicInfo ==
    [filename |-> file_path,
     shape |-> <<NRows(df), NCols(df)>>,
     columns |-> df.names,
     dtypes |-> Dtypes(df)]

GetBasicInfo ==
    /\ pc = "basic_info"
    /\ results' = [basic_info |-> BasicInfo]
    /\ Goto("basic_info", NextStage("basic_info"), <<>>)
    /\ UNCHANGED <<fs, config, report, caller, file_path, validated_path, df>>

\* The dict check_column_headers returns.
ColumnHeaders(t) ==
    LET base == [has_headers |-> TRUE,
                 column_names |-> t.names,
                 duplicate_columns |-> DuplicateColumns(t.names)]
    IN IF HasDefaultNames(t.names)
       THEN base @@ [has_headdrs |-> FALSE]
       ELSE base

\* check_column_headers()
CheckColumnHeaders ==
    /\ pc = "headers"
    /\ LET r == ColumnHeaders(df) IN
       /\ results' = results @@ [headers |-> r]
       /\ Goto("headers", NextStage("headers"),
               (IF HasDefaultNames(df.names)
                THEN <<LogEntry("warning", <<"No column headers detected">>)>>
                ELSE <<>>)
               \o (IF r.has_headers /\ r.duplicate_columns = <<>>
                   THEN <<LogEntry("info", <<"Column headers check passed">>)>>
                   ELSE <<>>))
    /\ UNCHANGED <<fs, config, report, caller, file_path, validated_path, df>>

\* The dict check_empty_rows_columns returns.
EmptyRowsColumns(t) ==
    [empty_columns |-> EmptyColumns(t), empty_row_count |-> NumEmptyRows(t)]

\* check_empty_rows_columns()
CheckEmptyRowsColumns ==
    /\ pc = "empty_data"
    /\ LET r == EmptyRowsColumns(df) IN
       /\ results' = results @@ [empty_data |-> r]
       /\ Goto("empty_data", NextStage("empty_data"),
               (IF r.empty_columns # <<>>
                THEN <<LogEntry("warning", <<"Empty columns detected", r.empty_columns>>)>>
                ELSE <<>>)
               \o (IF r.empty_row_count > 0
                   THEN <<LogEntry("warning", <<"Found completely empty rows", r.empty_row_count>>)>>
                   ELSE <<>>)
               \o (IF r.empty_columns = <<>> /\ r.empty_row_count = 0
                   THEN <<LogEntry("info", <<"No empty rows or columns detected">>)>>
                   ELSE <<>>))
    /\ UNCHANGED <<fs, config, report, caller, file_path, validated_path, df>>

\* check_duplicate_rows()
CheckDuplicateRows ==
    /\ pc = "duplicates"
    /\ LET num_duplicates == NumDuplicates(df)
           duplicate_pct == DuplicatePct(df)
           max_duplicate_pct == config.validation.max_duplicate_pct
           error_msg == <<"Duplicate rows check FAILED", duplicate_pct, max_duplicate_pct>>
       IN IF DuplicateGateFails(duplicate_pct, max_duplicate_pct)
          THEN /\ Raise("duplicates", "DuplicateRowsExceededError", error_msg,
                        <<LogEntry("error", error_msg)>>)
               /\ UNCHANGED results
          ELSE /\ results' = results @@
                      [duplicates |-> [count |-> num_duplicates,
                                       percentage |-> duplicate_pct]]
               /\ Goto("duplicates", NextStage("duplicates"),
                       <<LogEntry("info", <<"Duplicate rows check PASSED">>)>>)
    /\ UNCHANGED <<fs, config, report, caller, file_path, validated_path, df>>

\* A check that raises inside the loop, at the first offending column.
MissingViolationsFirstOnly(t, max_missing_pct) ==
    LET all == MissingValuesLoop(t, max_missing_pct, NCols(t)).violations
    IN IF all = <<>> THEN <<>> ELSE <<all[1]>>

\* The list violations of check_missing_values once its loop has ended.
MissingViolations(t, max_missing_pct) ==
    MissingValuesLoop(t, max_missing_pct, NCols(t)).violations

\* A mapping that keeps only the columns that have missing cells.
MissingByColumnNonZeroOnly(t, max_missing_pct) ==
    SelectSeq(MissingValuesLoop(t, max_missing_pct, NCols(t)).by_column,
              LAMBDA e : e.pct.num > 0)

\* The dict missing_by_column of check_missing_values once its loop has ended.
MissingByColumn(t, max_missing_pct) ==
    MissingValuesLoop(t, max_missing_pct, NCols(t)).by_column

\* check_missing_values()
CheckMissingValues ==
    /\ pc = "missing_values"
    /\ LET max_missing_pct == config.validation.max_missing_pct
           violations == MissingViolations(df, max_missing_pct)
           error_msg == <<"Missing values exceeded threshold", violations>>
       IN IF violations # <<>>
          THEN /\ Raise("missing_values", "MissingValuesExceededError", error_msg,
                        <<LogEntry("error", error_msg)>>)
               /\ UNCHANGED results
          ELSE /\ results' = results @@
                      [missing_values |-> MissingByColumn(df, max_missing_pct)]
               /\ Goto("missing_values", NextStage("missing_values"),
                       <<LogEntry("info", <<"Missing values check PASSED">>)>>)
    /\ UNCHANGED <<fs, config, report, caller, file_path, validated_path, df>>

\* The list violations of check_whitespace_pollution once its loop has ended.
WhitespaceViolations(t, threshold) ==
    WhitespaceLoop(t, threshold, Len(ObjectColumns(t))).violations

\* The dict whitespace_by_column once the loop has ended.
WhitespaceByColumn(t, threshold) ==
    WhitespaceLoop(t, threshold, Len(ObjectColumns(t))).by_column

\* check_whitespace_pollution that logs the violations and does not raise.
CheckWhitespacePollutionLogsOnly ==
    /\ pc = "whitespace"
    /\ LET threshold == config.validation.whitespace_threshold_pct
           violations == WhitespaceViolations(df, threshold)
           error_msg == <<"Whitespace pollution exceeded threshold", violations>>
       IN /\ results' = results @@
                 [whitespace |-> WhitespaceByColumn(df, threshold)]
          /\ Goto("whitespace", NextStage("whitespace"),
                  IF violations # <<>>
                  THEN <<LogEntry("warning", error_msg)>>
                  ELSE <<LogEntry("info", <<"Whitespace check PASSED">>)>>)
    /\ UNCHANGED <<fs, config, report, caller, file_path, validated_path, df>>

\* check_whitespace_pollution()
CheckWhitespacePollution ==
    /\ pc = "whitespace"
    /\ LET threshold == config.validation.whitespace_threshold_pct
           violations == WhitespaceViolations(df, threshold)
           error_msg == <<"Whitespace pollution exceeded threshold", violations>>
       IN IF violations # <<>>
          THEN /\ Raise("whitespace", "WhiteSpacePollutionError", error_msg,
                        <<LogEntry("warning", error_msg)>>)
               /\ UNCHANGED results
          ELSE /\ results' = results @@
                      [whitespace |-> WhitespaceByColumn(df, threshold)]
               /\ Goto("whitespace", NextStage("whitespace"),
                       <<LogEntry("info", <<"Whitespace check PASSED">>)>>)
    /\ UNCHANGED <<fs, config, report, caller, file_path, validated_path, df>>

\* return results
Return ==
    /\ pc = "return"
    /\ outcome' = Returned(results)
    /\ pc' = "done"
    /\ log' = Append(log, LogEntry("info", <<"ALL CHECKS PASSED">>))
    /\ UNCHANGED <<fs, config, report, caller, file_path, validated_path, df, results, trace>>

\* validate_all(file_path), one stage at a time
Next ==
    \/ ValidateFilePath
    \/ LoadCsv
    \/ GetBasicInfo
    \/ CheckColumnHeaders
    \/ CheckEmptyRowsColumns
    \/ CheckDuplicateRows
    \/ CheckMissingValues
    \/ CheckWhitespacePollution
    \/ Return

Spec == Init /\ [][Next]_vars

(***************************************************************************)
(* The report renderer (src/v2-modular/report.py), applied to the result   *)
(* validate_all returned, with the same configuration.                     *)
(***************************************************************************)

\* The keys generate_report reads from the result, in the order it reads
\* them: the header and the six sections, then the summary.  The summary
\* reads empty_data['empty_column'] when empty_columns is not empty.
RendererReads(r) ==
    << <<"basic_info", "filename">>,
       <<"basic_info", "shape">>, <<"basic_info", "columns">>, <<"basic_info", "dtypes">>,
       <<"headers", "has_headers">>, <<"headers", "duplicate_columns">>,
       <<"duplicates", "count">>, <<"duplicates", "percentage">>,
       <<"missing_values">>,
       <<"whitespace">>,
       <<"empty_data", "empty_columns">>, <<"empty_data", "empty_row_count">>,
       <<"duplicates", "percentage">>,
       <<"missing_values">>,
       <<"whitespace">>,
       <<"empty_data", "empty_columns">> >>
    \o (IF /\ "empty_data" \in DOMAIN r
           /\ "empty_columns" \in DOMAIN r.empty_data
           /\ r.empty_data.empty_columns # <<>>
        THEN << <<"empty_data", "empty_column">> >>
        ELSE <<>>)
    \o << <<"empty_data", "empty_row_count">> >>

\* d[k1] or d[k1][k2] finds its key.
CanRead(r, path) ==
    /\ path[1] \in DOMAIN r
    /\ Len(path) = 2 => path[2] \in DOMAIN r[path[1]]

\* The first read of the renderer that raises KeyError on r, <<>> if every
\* read finds its key.
FirstFailedRead(r) ==
    LET reads == RendererReads(r)
        bad == {k \in 1..Len(reads) : ~ CanRead(r, reads[k])}
    IN IF bad = {} THEN <<>>
       ELSE reads[CHOOSE k \in bad : \A l \in bad : k <= l]

\* A verdict that passes only below the threshold: percentage < threshold
DuplicatesVerdictBelowOnly(r, cfg) ==
    IF r.duplicates.percentage.num
           < cfg.validation.max_duplicate_pct * r.duplicates.percentage.den
    THEN "PASSED" ELSE "FAILED"

\* The verdict line of _generate_duplicates_section: PASSED when
\* percentage <= threshold, FAILED otherwise.
DuplicatesVerdict(r, cfg) ==
    IF r.duplicates.percentage.num
           <= cfg.validation.max_duplicate_pct * r.duplicates.percentage.den
    THEN "PASSED" ELSE "FAILED"

\* The issues _generate_summary appends for the three gates.
GateIssues(r, cfg) ==
    (IF PctGT(r.duplicates.percentage, cfg.validation.max_duplicate_pct)
     THEN << <<"Duplicate rows", r.duplicates.percentage>> >> ELSE <<>>)
    \o [k \in 1..Len(SelectSeq(r.missing_values,
                                LAMBDA e : PctGT(e.pct, cfg.validation.max_missing_pct))) |->
            <<"Missing values in",
              SelectSeq(r.missing_values,
                        LAMBDA e : PctGT(e.pct, cfg.validation.max_missing_pct))[k].col>>]
    \o [k \in 1..Len(SelectSeq(r.whitespace,
                                LAMBDA e : PctGT(e.pct, cfg.validation.whitespace_threshold_pct))) |->
            <<"Whitespace in",
              SelectSeq(r.whitespace,
                        LAMBDA e : PctGT(e.pct, cfg.validation.whitespace_threshold_pct))[k].col>>]

\* The list issues of _generate_summary.
SummaryIssues(r, cfg) ==
    GateIssues(r, cfg)
    \o (IF r.empty_data.empty_columns # <<>>
        THEN << <<"Empty columns", r.empty_data.empty_column>> >> ELSE <<>>)
    \o (IF r.empty_data.empty_row_count > 0
        THEN << <<"Empty rows", r.empty_data.empty_row_count>> >> ELSE <<>>)

\* The report, by what its sections state.
ReportText(r, cfg) ==
    [filename |-> r.basic_info.filename,
     shape |-> r.basic_info.shape,
     columns |-> r.basic_info.columns,
     has_headers |-> r.headers.has_headers,
     duplicate_columns |-> r.headers.duplicate_columns,
     duplicates |-> DuplicatesVerdict(r, cfg),
     missing_values |-> r.missing_values,
     whitespace |-> r.whitespace,
     empty_columns |-> r.empty_data.empty_columns,
     empty_row_count |-> r.empty_data.empty_row_count,
     issues |-> SummaryIssues(r, cfg)]

\* generate_report(results) on the result validate_all returned
GenerateReport ==
    /\ pc = "done"
    /\ outcome.kind = "returned"
    /\ LET r == outcome.value
           bad == FirstFailedRead(r)
       IN IF bad # <<>>
          THEN /\ report' = Raised("KeyError", bad[Len(bad)])
               /\ pc' = "report_failed"
               /\ log' = log
          ELSE /\ report' = Returned(ReportText(r, config))
               /\ pc' = "reported"
               /\ log' = Append(log, LogEntry("info", <<"Report generated sucessfully!">>))
    /\ UNCHANGED <<fs, config, caller, file_path, validated_path, df, results, outcome, trace>>

\* validate_csv, then generate_report on its result
NextReport ==
    \/ Next
    \/ GenerateReport

SpecReport == Init /\ [][NextReport]_vars

(***************************************************************************)
(* The same program on the inputs that exercise check_duplicate_rows:      *)
(* longer tables of few distinct rows, and more duplicate thresholds.      *)
(***************************************************************************)
DupCells == {NaN, StrCell(<<"a">>)}
DupTables == FramesOf(ColumnLabels, MaxDupRows, DupCells)
DupThresholds == {0, 25, 50, 100}

DupConfigs ==
    [validation : [whitespace_threshold_pct : {50},
                   max_duplicate_pct : DupThresholds,
                   max_missing_pct : {50}]]

InitDup ==
    /\ fs \in [kind : {"file"}, suffix : {CsvSuffix},
               content : [parses : {TRUE}, table : DupTables]]
    /\ config \in DupConfigs
    /\ file_path = None
    /\ validated_path = None
    /\ df = None
    /\ pc = "path_gate"
    /\ results = <<>>
    /\ outcome = NoOutcome
    /\ report = None
    /\ caller = None
    /\ trace = <<>>
    /\ log = <<>>

SpecDup == InitDup /\ [][Next]_vars

(***************************************************************************)
(* The same program on the inputs that exercise check_whitespace_pollution:*)
(* one text column of up to MaxWsRows cells polluted at the front, at the  *)
(* end, or holding whitespace inside only; and short tables whose columns  *)
(* are text, numbers or booleans, with or without missing cells.  The      *)
(* other two thresholds are at 100, so that this check is reached.         *)
(***************************************************************************)
WsTextValues == {<<"a">>, <<" ", "a">>, <<"a", " ">>, <<"a", " ", "b">>}
WsCells == {NaN} \cup {StrCell(s) : s \in WsTextValues}
WsTypedCells ==
    {NaN, NumCell("1"), BoolCell("True"), StrCell(<<"a">>), StrCell(<<"a", "\t">>)}

WsTables ==
    FramesOf(<<StrLabel("x")>>, MaxWsRows, WsCells)
    \cup ParsedFramesOf(ColumnLabels, MaxRows, WsTypedCells)

WsThresholds == {0, 10, 50, 100}

WsConfigs ==
    [validation : [whitespace_threshold_pct : WsThresholds,
                   max_duplicate_pct : {100},
                   max_missing_pct : {100}]]

InitWs ==
    /\ fs \in [kind : {"file"}, suffix : {CsvSuffix},
               content : [parses : {TRUE}, table : WsTables]]
    /\ config \in WsConfigs
    /\ file_path = None
    /\ validated_path = None
    /\ df = None
    /\ pc = "path_gate"
    /\ results = <<>>
    /\ outcome = NoOutcome
    /\ report = None
    /\ caller = None
    /\ trace = <<>>
    /\ log = <<>>

SpecWs == InitWs /\ [][Next]_vars

(***************************************************************************)
(* check_column_headers called on its own, on a validator whose df already *)
(* holds a frame.  load_csv reads the first line of the file as the header *)
(* and pandas makes repeated header names distinct, so frames with         *)
(* positional integer labels or with repeated labels reach the method only *)
(* when the caller has stored them in self.df; here every such frame of up *)
(* to MaxLabels columns is one.                                            *)
(***************************************************************************)
HeaderLabels == {StrLabel("x"), StrLabel("y"), IntLabel("0"), IntLabel("1")}

HeaderFrames ==
    UNION {
        {DataFrame(names, rows) :
            names \in [1..m -> HeaderLabels],
            rows \in {<<>>, <<[j \in 1..m |-> NaN]>>, <<[j \in 1..m |-> NumCell("1")]>>}} :
            m \in 1..MaxLabels}

InitHeaders ==
    /\ fs \in [kind : {"file"}, suffix : {CsvSuffix},
               content : [parses : {TRUE}, table : HeaderFrames]]
    /\ config \in DupConfigs
    /\ file_path = PathOf(fs)
    /\ validated_path = PathOf(fs)
    /\ df = fs.content.table
    /\ pc = "headers"
    /\ results = <<>>
    /\ outcome = NoOutcome
    /\ report = None
    /\ caller = None
    /\ trace = <<>>
    /\ log = <<>>

NextHeaders == CheckColumnHeaders

SpecHeaders == InitHeaders /\ [][NextHeaders]_vars

(***************************************************************************)
(* load_csv called on its own: on any path (nothing, a directory, a file   *)
(* that fails to read for one of the causes, a file that parses), by a     *)
(* validator that is fresh or still holds the table of an earlier load.    *)
(***************************************************************************)
LoadTables == FramesOf(<<StrLabel("x")>>, MaxRows, DupCells)

LoadEntries ==
    [kind : {"missing", "dir"}, suffix : {CsvSuffix}, content : {None}]
    \cup [kind : {"file"}, suffix : {CsvSuffix},
          content : [parses : {FALSE}, cause : ReadFailures]
                    \cup [parses : {TRUE}, table : LoadTables]]

InitLoad ==
    /\ fs \in LoadEntries
    /\ config \in [validation : [whitespace_threshold_pct : {50},
                                 max_duplicate_pct : {50},
                                 max_missing_pct : {50}]]
    /\ file_path = None
    /\ validated_path = PathOf(fs)
    /\ df \in {None} \cup LoadTables
    /\ pc = "load"
    /\ results = <<>>
    /\ outcome = NoOutcome
    /\ report = None
    /\ caller = None
    /\ trace = <<>>
    /\ log = <<>>

NextLoad == LoadCsv

SpecLoad == InitLoad /\ [][NextLoad]_vars

(***************************************************************************)
(* load_config (src/v2-modular/config.py): fs is what config_path names,   *)
(* config receives the dictionary load_config returns.                     *)
(***************************************************************************)

\* The values a threshold field of the YAML file can hold: a text, or an
\* integer below, inside, at the ends of, or above the range 0..100.
RawValues ==
    {[type |-> "str", val |-> 0]} \cup [type : {"int"}, val : {-1, 0, 50, 100, 101}]

\* isinstance(v, (int, float))
IsNumber(v) == v.type \in {"int", "float"}

ThresholdFields == {"whitespace_threshold_pct", "max_duplicate_pct", "max_missing_pct"}
SectionNames == {"validation", "output", "logging"}

\* The 'validation' sections: any of the three fields present or absent.
ValidationSections == UNION {[F -> RawValues] : F \in SUBSET ThresholdFields}

\* str.upper() on the level names explored.
Upper(s) == IF s = "info" THEN "INFO" ELSE s

LoggingSections ==
    [level : {"INFO", "info", "TRACE"}, log_to_file : {[type |-> "bool", val |-> 1]}]
    \cup [level : {"INFO"}, log_to_file : {[type |-> "str", val |-> 0]}]

OutputSections == {[directory |-> "reports", filename_prefix |-> "health_report"]}

\* What yaml.safe_load returns for the files explored: a mapping holding all
\* three sections, or all but one.
ConfigMappings ==
    {[k \in S |-> full[k]] :
        full \in [validation : ValidationSections,
                  output : OutputSections,
                  logging : LoggingSections],
        S \in {SectionNames, SectionNames \ {"validation"}, SectionNames \ {"logging"}}}

\* What config_path names: nothing, a file that is not YAML, an empty file,
\* or a file holding a mapping.
ConfigFiles ==
    [kind : {"missing", "bad_yaml", "empty"}, content : {None}]
    \cup [kind : {"mapping"}, content : ConfigMappings]

\* A total order on the required sections and fields, as required_structure
\* lists them.
RequiredStructure ==
    << <<"validation", <<"whitespace_threshold_pct", "max_duplicate_pct", "max_missing_pct">> >>,
       <<"output", <<"directory", "filename_prefix">> >>,
       <<"logging", <<"level", "log_to_file">> >> >>

\* The message of the ConfigurationError _validate_validation_section raises
\* on the section v, <<>> when it raises none.
ValidateValidationSection(v) ==
    IF ~ IsNumber(v.whitespace_threshold_pct)
    THEN <<"validation.whitespace_threshold_pct must be between 0 and 100">>
    ELSE IF ~ IsNumber(v.max_duplicate_pct)
    THEN <<"validation.max_duplicate_pct must be a number">>
    ELSE IF ~ IsNumber(v.max_missing_pct)
    THEN <<"validation.max_missing_pct must be a number">>
    ELSE IF v.max_missing_pct.val < 0 \/ v.max_missing_pct.val > 100
    THEN <<"validation.max_missing_pct must be between 0 and 100">>
    ELSE <<>>

\* The message of the ConfigurationError _validate_logging_section raises.
ValidateLoggingSection(l) ==
    IF Upper(l.level) \notin {"DEBUG", "INFO", "WARNING", "ERROR", "CRITICAL"}
    THEN <<"logging.level must be one of the valid levels">>
    ELSE IF l.log_to_file.type # "bool"
    THEN <<"logging.log_to_file must be true or false">>
    ELSE <<>>

\* The message of the ConfigurationError _validate_config raises on the
\* mapping c, <<>> when it raises none.
ValidateConfig(c) ==
    LET missingSections ==
            {k \in 1..3 : RequiredStructure[k][1] \notin DOMAIN c}
        missingFields ==
            {<<k, i>> \in (1..3) \X (1..3) :
                /\ i <= Len(RequiredStructure[k][2])
                /\ RequiredStructure[k][1] \in DOMAIN c
                /\ RequiredStructure[k][2][i] \notin DOMAIN c[RequiredStructure[k][1]]}
        first(S) == CHOOSE x \in S : \A y \in S : x <= y
        firstField ==
            CHOOSE p \in missingFields :
                \A q \in missingFields :
                    p[1] < q[1] \/ (p[1] = q[1] /\ p[2] <= q[2])
    IN IF missingSections # {}
       THEN <<"Missing required configuration sections",
              RequiredStructure[first(missingSections)][1]>>
       ELSE IF missingFields # {}
       THEN <<"Missing required field", RequiredStructure[firstField[1]][1],
              RequiredStructure[firstField[1]][2][firstField[2]]>>
       ELSE IF ValidateValidationSection(c.validation) # <<>>
       THEN ValidateValidationSection(c.validation)
       ELSE ValidateLoggingSection(c.logging)

\* The message of the ConfigurationError load_config raises, <<>> when it
\* returns the configuration.
LoadConfigError(entry) ==
    CASE entry.kind = "missing" -> <<"Configuration file not found">>
      [] entry.kind = "bad_yaml" -> <<"Invalid YAML in configuration file">>
      [] entry.kind = "empty" -> <<"Configuration file is empty">>
      [] OTHER -> ValidateConfig(entry.content)

\* load_config(config_path)
LoadConfig ==
    /\ pc = "load_config"
    /\ LET e == LoadConfigError(fs) IN
       IF e # <<>>
       THEN /\ outcome' = Raised("ConfigurationError", e)
            /\ pc' = "config_failed"
            /\ config' = config
       ELSE /\ config' = fs.content
            /\ outcome' = Returned(fs.content)
            /\ pc' = "configured"
    /\ UNCHANGED <<fs, report, caller, file_path, validated_path, df, results, trace, log>>

InitConfig ==
    /\ fs \in ConfigFiles
    /\ config = None
    /\ file_path = None
    /\ validated_path = None
    /\ df = None
    /\ pc = "load_config"
    /\ results = <<>>
    /\ outcome = NoOutcome
    /\ report = None
    /\ caller = None
    /\ trace = <<>>
    /\ log = <<>>

NextConfig == LoadConfig

SpecConfig == InitConfig /\ [][NextConfig]_vars

(***************************************************************************)
(* The error taxonomy (src/v2-modular/exceptions.py) and the try statement.*)
(***************************************************************************)

\* The error kinds of exceptions.py, ConfigurationError of config.py, and the
\* built-in kinds the program meets.
ErrorKinds ==
    {"CSVHealthTrackerError", "CSVFileError", "CSVNotFoundError", "CSVReadError",
     "InvalidCSVFormatError", "ValidationError", "DuplicateRowsExceededError",
     "MissingValuesExceededError", "WhiteSpacePollutionError",
     "ReportGenerationError", "ConfigurationError", "KeyError", "OSError",
     "KeyboardInterrupt", "Exception", "BaseException"}

\* A taxonomy in which DuplicateRowsExceededError derives from its sibling
\* MissingValuesExceededError.
BaseWithSiblingParent(kind) ==
    CASE kind = "CSVHealthTrackerError" -> "Exception"
      [] kind \in {"CSVFileError", "ValidationError", "ReportGenerationError"} ->
             "CSVHealthTrackerError"
      [] kind \in {"CSVNotFoundError", "CSVReadError", "InvalidCSVFormatError"} ->
             "CSVFileError"
      [] kind = "DuplicateRowsExceededError" -> "MissingValuesExceededError"
      [] kind \in {"MissingValuesExceededError", "WhiteSpacePollutionError"} ->
             "ValidationError"
      [] kind \in {"ConfigurationError", "KeyError", "OSError"} -> "Exception"
      [] kind \in {"Exception", "KeyboardInterrupt"} -> "BaseException"
      [] OTHER -> "object"

\* The class each error kind is declared to derive from.
Base(kind) ==
    CASE kind = "CSVHealthTrackerError" -> "Exception"
      [] kind \in {"CSVFileError", "ValidationError", "ReportGenerationError"} ->
             "CSVHealthTrackerError"
      [] kind \in {"CSVNotFoundError", "CSVReadError", "InvalidCSVFormatError"} ->
             "CSVFileError"
      [] kind \in {"DuplicateRowsExceededError", "MissingValuesExceededError",
                   "WhiteSpacePollutionError"} -> "ValidationError"
      [] kind \in {"ConfigurationError", "KeyError", "OSError"} -> "Exception"
      [] kind \in {"Exception", "KeyboardInterrupt"} -> "BaseException"
      [] OTHER -> "object"

RECURSIVE IsSubKind(_, _)
\* issubclass(kind, handler): handler is kind or one of its ancestors.
IsSubKind(kind, handler) ==
    \/ kind = handler
    \/ kind # "object" /\ IsSubKind(Base(kind), handler)

\* `except handler:` catches an error of this kind.
Catches(handler, kind) == IsSubKind(kind, handler)

\* try: raise <kind> / except <handler>: ...
TryExcept ==
    /\ pc = "raising"
    /\ pc' = IF Catches(caller.handler, outcome.type) THEN "caught" ELSE "propagated"
    /\ UNCHANGED <<fs, config, report, caller, file_path, validated_path, df, results,
                   outcome, trace, log>>

\* An error of any kind raised inside a try statement with any one handler.
InitCatch ==
    /\ fs \in [kind : {"missing"}, suffix : {CsvSuffix}, content : {None}]
    /\ config \in DupConfigs
    /\ file_path = None
    /\ validated_path = None
    /\ df = None
    /\ pc = "raising"
    /\ results = <<>>
    /\ outcome \in {Raised(kind, <<>>) : kind \in ErrorKinds}
    /\ report = None
    /\ caller \in [handler : ErrorKinds]
    /\ trace = <<>>
    /\ log = <<>>

NextCatch == TryExcept

SpecCatch == InitCatch /\ [][NextCatch]_vars

(***************************************************************************)
(* main (src/v2-modular/main.py): parse the arguments, load the            *)
(* configuration, set up the logger, validate, render and save the report, *)
(* with the except clauses of its try statement.  The configuration file   *)
(* and the directories are taken not to change while main runs.            *)
(***************************************************************************)

\* The configuration files explored: none, and mappings whose three
\* thresholds are all a text, all 0 or all 50.
MainConfigFiles ==
    {[kind |-> "missing", content |-> None]}
    \cup {[kind |-> "mapping",
           content |-> [validation |-> [f \in ThresholdFields |-> v],
                        output |-> [directory |-> "reports",
                                    filename_prefix |-> "health_report"],
                        logging |-> [level |-> "INFO",
                                     log_to_file |-> [type |-> "bool", val |-> 1]]]] :
            v \in {[type |-> "str", val |-> 0], [type |-> "int", val |-> 0],
                   [type |-> "int", val |-> 50]}}

\* What sys.argv[1] names in the runs explored.
MainEntries ==
    [kind : {"missing", "dir"}, suffix : {CsvSuffix, <<".", "t", "x", "t">>},
     content : {None}]
    \cup [kind : {"file"}, suffix : {CsvSuffix, <<".", "t", "x", "t">>},
          content : [parses : {FALSE}, cause : {"PermissionError"}]
                    \cup [parses : {TRUE}, table : LoadTables]]

\* The dictionary load_config returns, its thresholds as the numbers the
\* engine compares with.
EngineConfig(c) ==
    [validation |->
        [whitespace_threshold_pct |-> c.validation.whitespace_threshold_pct.val,
         max_duplicate_pct |-> c.validation.max_duplicate_pct.val,
         max_missing_pct |-> c.validation.max_missing_pct.val]]

\* The except clauses of main, in their order.
MainHandlers ==
    <<"ConfigurationError", "CSVHealthTrackerError", "KeyboardInterrupt", "Exception">>

\* A try statement without the final `except Exception` clause.
MainHandlerWithoutCatchAll(kind) ==
    LET hits == {k \in 1..3 : Catches(MainHandlers[k], kind)}
    IN IF hits = {} THEN "none"
       ELSE MainHandlers[CHOOSE k \in hits : \A l \in hits : k <= l]

\* The except clause of main that handles an error of this kind: the first
\* one that catches it, "none" when the error leaves main.
MainHandler(kind) ==
    LET hits == {k \in 1..Len(MainHandlers) : Catches(MainHandlers[k], kind)}
    IN IF hits = {} THEN "none"
       ELSE MainHandlers[CHOOSE k \in hits : \A l \in hits : k <= l]

\* An error of this kind is raised inside the try statement of main: the
\* clause that handles it returns 1.
MainExcept(kind) ==
    LET h == MainHandler(kind) IN
    /\ caller' = [caller EXCEPT !.handler = h,
                                !.exit_code = IF h = "none" THEN <<>> ELSE <<1>>]
    /\ pc' = IF h = "none" THEN "escaped" ELSE "exited"

\* file_path = parse_arguments(); if file_path is None: return 1
MainParseArguments ==
    /\ pc = "main"
    /\ IF caller.argv
       THEN /\ pc' = "main_config"
            /\ caller' = caller
       ELSE /\ pc' = "exited"
            /\ caller' = [caller EXCEPT !.exit_code = <<1>>]
    /\ UNCHANGED <<fs, config, report, file_path, validated_path, df, results,
                   outcome, trace, log>>

\* config = load_config(); logger = get_logger_from_config(config)
MainLoadConfig ==
    /\ pc = "main_config"
    /\ IF LoadConfigError(caller.config_file) # <<>>
       THEN /\ MainExcept("ConfigurationError")
            /\ config' = config
       ELSE IF ~ caller.log_dir_ok
       THEN /\ MainExcept("OSError")
            /\ config' = config
       ELSE /\ config' = EngineConfig(caller.config_file.content)
            /\ pc' = "path_gate"
            /\ caller' = caller
    /\ UNCHANGED <<fs, report, file_path, validated_path, df, results, outcome,
                   trace, log>>

\* validate_csv raised: the error reaches the except clauses of main.
MainValidationFailed ==
    /\ pc = "failed"
    /\ MainExcept(outcome.type)
    /\ UNCHANGED <<fs, config, report, file_path, validated_path, df, results,
                   outcome, trace, log>>

\* generate_report raised: the error reaches the except clauses of main.
MainReportFailed ==
    /\ pc = "report_failed"
    /\ MainExcept(report.type)
    /\ UNCHANGED <<fs, config, report, file_path, validated_path, df, results,
                   outcome, trace, log>>

\* HealthReportGenerator(logger, config) cannot create the output directory.
MainCreateGeneratorFailed ==
    /\ pc = "done"
    /\ ~ caller.output_dir_ok
    /\ MainExcept("ReportGenerationError")
    /\ UNCHANGED <<fs, config, report, file_path, validated_path, df, results,
                   outcome, trace, log>>

\* generator.generate_report(results), once the generator exists
MainGenerateReport ==
    /\ caller.output_dir_ok
    /\ GenerateReport

\* save_report, handle_validation_sucess, return 0
MainSaveReport ==
    /\ pc = "reported"
    /\ IF caller.save_ok
       THEN /\ caller' = [caller EXCEPT !.exit_code = <<0>>]
            /\ pc' = "exited"
       ELSE MainExcept("ReportGenerationError")
    /\ UNCHANGED <<fs, config, report, file_path, validated_path, df, results,
                   outcome, trace, log>>

\* The user interrupts main while it is inside its try statement.
MainInterrupt ==
    /\ pc \in {"main_config", "path_gate", "load", "basic_info", "headers",
               "empty_data", "duplicates", "missing_values", "whitespace",
               "return", "done", "reported"}
    /\ MainExcept("KeyboardInterrupt")
    /\ UNCHANGED <<fs, config, report, file_path, validated_path, df, results,
                   outcome, trace, log>>

InitMain ==
    /\ fs \in MainEntries
    /\ config = None
    /\ file_path = None
    /\ validated_path = None
    /\ df = None
    /\ pc = "main"
    /\ results = <<>>
    /\ outcome = NoOutcome
    /\ report = None
    /\ caller \in [argv : BOOLEAN, config_file : MainConfigFiles,
                    log_dir_ok : BOOLEAN, output_dir_ok : BOOLEAN,
                    save_ok : BOOLEAN,
                    handler : {"none"}, exit_code : {<<>>}]
    /\ trace = <<>>
    /\ log = <<>>

\* main(), one step at a time
NextMain ==
    \/ MainParseArguments
    \/ MainLoadConfig
    \/ Next
    \/ MainValidationFailed
    \/ MainCreateGeneratorFailed
    \/ MainGenerateReport
    \/ MainReportFailed
    \/ MainSaveReport
    \/ MainInterrupt

SpecMain == InitMain /\ [][NextMain]_vars

(***************************************************************************)
(* One validator called several times: validate_all runs again, on any     *)
(* path and any file content, after an earlier call returned or raised.    *)
(* The fields self.df and self.file_path keep what the earlier call left   *)
(* in them; everything else of a call is local to it.                      *)
(***************************************************************************)
MaxCalls == 2

ReuseEntries ==
    [kind : {"missing", "dir"},
     suffix : {CsvSuffix, <<".", "C", "S", "V">>, <<".", "t", "x", "t">>},
     content : {None}]
    \cup [kind : {"file"},
          suffix : {CsvSuffix, <<".", "C", "S", "V">>, <<".", "t", "x", "t">>},
          content : [parses : {FALSE}, cause : {"PermissionError"}]
                    \cup [parses : {TRUE}, table : LoadTables]]

\* validator.validate_all(file_path) once more, on the same validator
ValidateAllAgain ==
    /\ pc \in {"done", "failed"}
    /\ caller.calls < MaxCalls
    /\ caller' = [calls |-> caller.calls + 1]
    /\ fs' \in ReuseEntries
    /\ pc' = "path_gate"
    /\ validated_path' = None
    /\ results' = <<>>
    /\ outcome' = NoOutcome
    /\ trace' = <<>>
    /\ log' = <<>>
    /\ UNCHANGED <<config, report, df, file_path>>

InitReuse ==
    /\ fs \in ReuseEntries
    /\ config \in DupConfigs
    /\ file_path = None
    /\ validated_path = None
    /\ df = None
    /\ pc = "path_gate"
    /\ results = <<>>
    /\ outcome = NoOutcome
    /\ report = None
    /\ caller = [calls |-> 1]
    /\ trace = <<>>
    /\ log = <<>>

NextReuse == Next \/ ValidateAllAgain

SpecReuse == InitReuse /\ [][NextReuse]_vars

(***************************************************************************)
(* validate_all on any path: besides nothing, a directory and a regular    *)
(* file, a path stat cannot answer for and a named pipe.  A call that is   *)
(* able to take its next step takes it.                                    *)
(***************************************************************************)
PathEntries ==
    ReuseEntries
    \cup [kind : {"unstatable", "fifo"},
          suffix : {CsvSuffix, <<".", "t", "x", "t">>}, content : {None}]

InitPaths ==
    /\ fs \in PathEntries
    /\ config \in DupConfigs
    /\ file_path = None
    /\ validated_path = None
    /\ df = None
    /\ pc = "path_gate"
    /\ results = <<>>
    /\ outcome = NoOutcome
    /\ report = None
    /\ caller = None
    /\ trace = <<>>
    /\ log = <<>>

SpecPaths == InitPaths /\ [][Next]_vars /\ WF_vars(Next)

(***************************************************************************)
(* What the claims speak of, stated on the inputs of the run and not       *)
(* through the operators of the checks.                                    *)
(***************************************************************************)
StageOrder ==
    <<"path_gate", "load", "basic_info", "headers", "empty_data",
      "duplicates", "missing_values", "whitespace">>
CheckStages == {StageOrder[k] : k \in 3..Len(StageOrder)} \cup {"return", "done"}
Terminal == pc \in {"done", "failed"}
ErrorType == IF outcome.kind = "raised" THEN outcome.type ELSE "none"
LastStage == trace[Len(trace)]
Ran(stage) == \E k \in 1..Len(trace) : trace[k] = stage

\* The path exists and its suffix is .csv in either case.
InputPassesGate == fs.kind # "missing" /\ fs.suffix \in {CsvSuffix, <<".", "C", "S", "V">>}
\* The path names a regular file that parses.
InputLoads == fs.kind = "file" /\ fs.content.parses
InputTable == fs.content.table
InputRows == Len(InputTable.rows)
InputCols == 1..Len(InputTable.names)
\* rows that repeat an earlier row: all rows but one per distinct row
InputDuplicateCount ==
    InputRows - Cardinality({InputTable.rows[i] : i \in 1..InputRows})
InputMissingCount(j) ==
    Cardinality({i \in 1..InputRows : InputTable.rows[i][j] = NaN})
\* a text cell that starts or ends with a whitespace character
Polluted(c) ==
    /\ c.kind = "str"
    /\ c.val # <<>>
    /\ (c.val[1] \in Whitespace \/ c.val[Len(c.val)] \in Whitespace)
InputPollutedCount(j) ==
    Cardinality({i \in 1..InputRows : Polluted(InputTable.rows[i][j])})
\* count / rows * 100 > threshold, in integers
Exceeds(count, threshold) == InputRows > 0 /\ count * 100 > threshold * InputRows
DuplicatesExceed ==
    Exceeds(InputDuplicateCount, config.validation.max_duplicate_pct)
MissingExceeds(j) ==
    Exceeds(InputMissingCount(j), config.validation.max_missing_pct)
WhitespaceExceeds(j) ==
    Exceeds(InputPollutedCount(j), config.validation.whitespace_threshold_pct)
SomeMissingExceeds == \E j \in InputCols : MissingExceeds(j)
SomeWhitespaceExceeds == \E j \in InputCols : WhitespaceExceeds(j)

\* The error kinds a stage can raise on the input of the run.
StageError(stage) ==
    CASE stage = "path_gate" ->
             IF fs.kind = "missing" THEN "CSVNotFoundError" ELSE "InvalidCSVFormatError"
      [] stage = "load" -> "CSVReadError"
      [] stage = "duplicates" -> "DuplicateRowsExceededError"
      [] stage = "missing_values" -> "MissingValuesExceededError"
      [] stage = "whitespace" -> "WhiteSpacePollutionError"
      [] OTHER -> "none"

Sections ==
    {"basic_info", "headers", "empty_data", "duplicates", "missing_values", "whitespace"}

(***************************************************************************)
(* Claims.                                                                 *)
(***************************************************************************)

\* C1: the stages of validate_all run in the fixed order path-gate, load,
\* basic-info, headers, empty-data, duplicates, missing-values, whitespace,
\* each at most once and never going back; load_csv is attempted only after
\* validate_file_path has succeeded (it has recorded the path), and no check
\* is reached unless load_csv has succeeded (it has stored the table).
C1_StagesInOrder ==
    /\ Len(trace) <= Len(StageOrder)
    /\ trace = SubSeq(StageOrder, 1, Len(trace))
    /\ pc \notin {"path_gate", "failed"} => file_path # None
    /\ Ran("load") => file_path = PathOf(fs) /\ validated_path = PathOf(fs)
    /\ pc \in CheckStages => df # None /\ InputLoads /\ df = InputTable
    /\ Len(trace) >= 3 => df # None /\ InputLoads

C1_Witness ==
    /\ pc = "done"
    /\ trace = StageOrder

\* C2: when the loaded table violates several thresholds at once, the error
\* is that of the first violated gate in the order duplicates, missing
\* values, whitespace: DuplicateRowsExceeded whenever duplicates exceed,
\* MissingValuesExceeded exactly when duplicates pass and some column's
\* missing values exceed, WhitespacePollutionExceeded exactly when both pass
\* and some column's whitespace exceeds.
C2_FirstViolatedGateWins ==
    (Terminal /\ InputPassesGate /\ InputLoads) =>
        /\ (ErrorType = "DuplicateRowsExceededError") <=> DuplicatesExceed
        /\ (ErrorType = "MissingValuesExceededError")
               <=> (~ DuplicatesExceed /\ SomeMissingExceeds)
        /\ (ErrorType = "WhiteSpacePollutionError")
               <=> (~ DuplicatesExceed /\ ~ SomeMissingExceeds /\ SomeWhitespaceExceeds)

C2_Witness ==
    /\ Terminal /\ InputPassesGate /\ InputLoads
    /\ DuplicatesExceed /\ SomeMissingExceeds /\ SomeWhitespaceExceeds
    /\ ErrorType = "DuplicateRowsExceededError"

\* C3: when a stage of validate_all fails the caller receives the error kind
\* that stage raised, unconverted, and no result, not even the findings of
\* the checks that completed; no later stage runs.
C3_FailureIsTheStagesError ==
    /\ pc = "failed" =>
           /\ outcome.kind = "raised"
           /\ outcome.type = StageError(LastStage)
           /\ ~ ENABLED Next
    /\ outcome.kind = "raised" => pc = "failed"
    /\ outcome.kind = "returned" => pc = "done"

C3_Witness ==
    /\ pc = "failed"
    /\ outcome.kind = "raised"
    /\ outcome.type = "MissingValuesExceededError"
    /\ "duplicates" \in DOMAIN results

\* C4: validate_all returns a result exactly when the path gate and the load
\* succeed and duplicate_pct, every column's missing_pct and every text
\* column's whitespace_pct are not greater than their thresholds; the result
\* holds exactly the six sections, duplicates as count and percentage.
C4_ReturnsExactlyWhenAllPass ==
    Terminal =>
        /\ (outcome.kind = "returned") <=>
               (/\ InputPassesGate
                /\ InputLoads
                /\ ~ DuplicatesExceed
                /\ ~ SomeMissingExceeds
                /\ ~ SomeWhitespaceExceeds)
        /\ outcome.kind = "returned" =>
               /\ DOMAIN outcome.value = Sections
               /\ DOMAIN outcome.value.duplicates = {"count", "percentage"}

C4_Witness ==
    /\ pc = "done"
    /\ outcome.kind = "returned"
    /\ InputRows = 2
    /\ InputDuplicateCount = 1
    /\ config.validation.max_duplicate_pct = 50

\* C5: validate_file_path applied to an existing entry that is not a regular
\* file (a directory) fails with InvalidFormat whatever its name, a directory
\* named data.csv included; it never accepts a directory.
C5_DirectoryIsInvalidFormat ==
    (fs.kind = "dir" /\ Ran("path_gate")) =>
        /\ trace = <<"path_gate">>
        /\ pc = "failed"
        /\ ErrorType = "InvalidCSVFormatError"
        /\ file_path = None

\* C6: validate_file_path applied to a path that does not exist fails with
\* NotFound whatever the extension of the path, and does not record the path
\* in the validator.
C6_MissingPathIsNotFound ==
    (fs.kind = "missing" /\ Ran("path_gate")) =>
        /\ trace = <<"path_gate">>
        /\ pc = "failed"
        /\ ErrorType = "CSVNotFoundError"
        /\ file_path = None

C6_Witness ==
    /\ fs.kind = "missing"
    /\ fs.suffix = <<".", "t", "x", "t">>
    /\ pc = "failed"

\* C7: for an existing regular file validate_file_path succeeds exactly when
\* the extension is .csv in either case (.CSV is accepted); on success it
\* returns the path and records it as file_path, otherwise it fails with
\* InvalidFormat.
C7_RegularFileNeedsCsvSuffix ==
    (fs.kind = "file" /\ Ran("path_gate")) =>
        IF fs.suffix \in {CsvSuffix, <<".", "C", "S", "V">>}
        THEN /\ file_path = PathOf(fs)
             /\ validated_path = PathOf(fs)
             /\ trace = <<"path_gate">> => pc = "load" /\ outcome = NoOutcome
        ELSE /\ trace = <<"path_gate">>
             /\ pc = "failed"
             /\ ErrorType = "InvalidCSVFormatError"
             /\ file_path = None
             /\ validated_path = None

C7_Witness ==
    /\ fs.kind = "file"
    /\ fs.suffix = <<".", "C", "S", "V">>
    /\ pc = "load"
    /\ file_path = PathOf(fs)

\* The value count / rows * 100 (0 for a table without rows).
IsPctOf(p, count) ==
    IF InputRows > 0 THEN p.num * InputRows = count * 100 * p.den ELSE p.num = 0

\* C8: the duplicate gate fails with DuplicateRowsExceeded exactly when
\* duplicate_pct is strictly greater than max_duplicate_pct; at or below the
\* threshold check_duplicate_rows returns (duplicate_count, duplicate_pct),
\* (1, 25.0) for a 4-row table with one duplicate and threshold 50.
C8_DuplicateGateIsStrict ==
    Ran("duplicates") =>
        /\ (ErrorType = "DuplicateRowsExceededError") <=> DuplicatesExceed
        /\ DuplicatesExceed => pc = "failed" /\ LastStage = "duplicates"
        /\ ~ DuplicatesExceed =>
               /\ "duplicates" \in DOMAIN results
               /\ results.duplicates.count = InputDuplicateCount
               /\ IsPctOf(results.duplicates.percentage, InputDuplicateCount)
        /\ (/\ InputRows = 4
            /\ InputDuplicateCount = 1
            /\ config.validation.max_duplicate_pct = 50) =>
               /\ results.duplicates.count = 1
               /\ PctEq(results.duplicates.percentage, 25)

C8_Witness ==
    /\ Ran("duplicates")
    /\ InputRows = 4
    /\ InputDuplicateCount = 1
    /\ config.validation.max_duplicate_pct = 50
    /\ results.duplicates.count = 1
    /\ PctEq(results.duplicates.percentage, 25)

\* The duplicate percentage the check reported, passing or failing.
ReportedDuplicatePct ==
    IF ErrorType = "DuplicateRowsExceededError"
    THEN outcome.msg[2]
    ELSE results.duplicates.percentage

\* C9: duplicate_count is the number of rows that equal an earlier row: the
\* first occurrence of a repeated row is not counted and a row occurring k
\* times contributes k-1, so N identical rows give duplicate_count = N-1 and
\* duplicate_pct = (N-1)/N*100.
C9_DuplicateCountSkipsFirstOccurrence ==
    Ran("duplicates") =>
        LET distinct == {InputTable.rows[i] : i \in 1..InputRows}
            occurrences(r) ==
                Cardinality({i \in 1..InputRows : InputTable.rows[i] = r})
            F[S \in SUBSET distinct] ==
                IF S = {} THEN 0
                ELSE LET r == CHOOSE x \in S : TRUE
                     IN (occurrences(r) - 1) + F[S \ {r}]
        IN /\ IsPctOf(ReportedDuplicatePct, F[distinct])
           /\ ErrorType # "DuplicateRowsExceededError" =>
                  results.duplicates.count = F[distinct]
           /\ (InputRows >= 1 /\ Cardinality(distinct) = 1) =>
                  /\ ReportedDuplicatePct.num * InputRows
                         = (InputRows - 1) * 100 * ReportedDuplicatePct.den
                  /\ ErrorType # "DuplicateRowsExceededError" =>
                         results.duplicates.count = InputRows - 1

C9_Witness ==
    /\ Ran("duplicates")
    /\ InputRows = 4
    /\ Cardinality({InputTable.rows[i] : i \in 1..InputRows}) = 1
    /\ ErrorType = "none"
    /\ results.duplicates.count = 3
    /\ PctEq(results.duplicates.percentage, 75)

\* The position of a column label in the loaded table.
PositionOf(col) == CHOOSE j \in InputCols : InputTable.names[j] = col

\* The violations v list exactly the columns of S, each once, in column
\* order, each with its percentage as given by count[j].
ListsExactly(v, S, count) ==
    /\ Len(v) = Cardinality(S)
    /\ \A k \in 1..Len(v) :
           /\ \E j \in S : v[k].col = InputTable.names[j]
           /\ IsPctOf(v[k].pct, count[PositionOf(v[k].col)])
    /\ \A k, l \in 1..Len(v) : k < l => PositionOf(v[k].col) < PositionOf(v[l].col)

\* C10: when a per-column gate (missing values, whitespace) fails, the error
\* enumerates exactly the columns whose percentage exceeds the threshold,
\* every one of them and no others, in column order: the decision is taken
\* after every column has been evaluated, not at the first offending one.
C10_ErrorListsEveryOffendingColumn ==
    /\ ErrorType = "MissingValuesExceededError" =>
           ListsExactly(outcome.msg[2],
                        {j \in InputCols : MissingExceeds(j)},
                        [j \in InputCols |-> InputMissingCount(j)])
    /\ ErrorType = "WhiteSpacePollutionError" =>
           ListsExactly(outcome.msg[2],
                        {j \in InputCols : WhitespaceExceeds(j)},
                        [j \in InputCols |-> InputPollutedCount(j)])

C10_Witness ==
    /\ ErrorType = "MissingValuesExceededError"
    /\ Len(outcome.msg[2]) = 2
    /\ outcome.msg[2][1].col = InputTable.names[1]
    /\ outcome.msg[2][2].col = InputTable.names[2]

\* C11: when check_missing_values passes, the mapping it returns has one
\* entry for every column of the table, in column order, columns without
\* any missing cell included; each entry is missing_count / total_rows * 100
\* of its column and none is greater than max_missing_pct.
C11_MissingMappingCoversEveryColumn ==
    "missing_values" \in DOMAIN results =>
        LET m == results.missing_values IN
        /\ Len(m) = Len(InputTable.names)
        /\ \A j \in InputCols :
               /\ m[j].col = InputTable.names[j]
               /\ IsPctOf(m[j].pct, InputMissingCount(j))
               /\ ~ MissingExceeds(j)
               /\ m[j].pct.num <= config.validation.max_missing_pct * m[j].pct.den

C11_Witness ==
    /\ "missing_values" \in DOMAIN results
    /\ Len(results.missing_values) = 2
    /\ InputMissingCount(1) = 1
    /\ InputMissingCount(2) = 0
    /\ PctEq(results.missing_values[1].pct, 50)
    /\ PctEq(results.missing_values[2].pct, 0)

\* Every percentage a check has stored or put in its error.
ReportedPcts ==
    (IF "duplicates" \in DOMAIN results
     THEN {results.duplicates.percentage} ELSE {})
    \cup (IF "missing_values" \in DOMAIN results
          THEN {results.missing_values[k].pct : k \in 1..Len(results.missing_values)}
          ELSE {})
    \cup (IF "whitespace" \in DOMAIN results
          THEN {results.whitespace[k].pct : k \in 1..Len(results.whitespace)}
          ELSE {})

\* C14: for a table with zero rows duplicate_pct, every column's missing_pct
\* and every text column's whitespace_pct are 0, no quotient is taken over
\* zero rows, and none of the three gates fails.
C14_ZeroRowsGiveZeroPercent ==
    (InputLoads /\ InputRows = 0) =>
        /\ \A p \in ReportedPcts : p.den # 0 /\ p.num = 0
        /\ Ran("duplicates") => pc # "failed"
        /\ "missing_values" \in DOMAIN results =>
               Len(results.missing_values) = Len(InputTable.names)

C14_Witness ==
    /\ InputLoads /\ InputRows = 0
    /\ pc = "done"
    /\ Len(results.missing_values) = 2
    /\ Len(results.whitespace) = 2
    /\ Cardinality(ReportedPcts) = 1

\* C17: check_empty_rows_columns never fails; empty_columns holds exactly
\* the names of the columns whose every cell is missing, in column order,
\* and empty_row_count the number of rows whose every cell is missing: both
\* are determined by the table alone, whatever the three thresholds.
C17_EmptyDataIsExactAndNeverFails ==
    Ran("empty_data") =>
        LET allMissing == {j \in InputCols : InputMissingCount(j) = InputRows}
            emptyRows ==
                {i \in 1..InputRows : \A j \in InputCols : InputTable.rows[i][j] = NaN}
        IN /\ "empty_data" \in DOMAIN results
           /\ LastStage = "empty_data" => pc = "duplicates" /\ outcome = NoOutcome
           /\ LET e == results.empty_data.empty_columns IN
              /\ Len(e) = Cardinality(allMissing)
              /\ \A k \in 1..Len(e) : \E j \in allMissing : e[k] = InputTable.names[j]
              /\ \A k, l \in 1..Len(e) : k < l => PositionOf(e[k]) < PositionOf(e[l])
           /\ results.empty_data.empty_row_count = Cardinality(emptyRows)

C17_Witness ==
    /\ Ran("empty_data")
    /\ InputRows = 2
    /\ Len(InputTable.names) = 2
    /\ InputMissingCount(1) = 2
    /\ InputMissingCount(2) = 1
    /\ results.empty_data.empty_columns = <<InputTable.names[1]>>
    /\ results.empty_data.empty_row_count = 1

\* The kinds of the cells of column j of the loaded table, missing cells
\* aside.
InputKinds(j) == {InputTable.rows[i][j].kind : i \in 1..InputRows} \ {"null"}

\* The column labels that are keys of the whitespace mapping.
WhitespaceKeys ==
    {results.whitespace[k].col : k \in 1..Len(results.whitespace)}

\* C12: the keys of the whitespace mapping are the text columns: every
\* column that holds text is a key, and no column that holds numbers or
\* booleans (and otherwise only missing cells) is one.
C12_OnlyTextColumnsAreKeys ==
    "whitespace" \in DOMAIN results =>
        \A j \in InputCols :
            /\ "str" \in InputKinds(j) => InputTable.names[j] \in WhitespaceKeys
            /\ InputKinds(j) \in {{"num"}, {"bool"}} =>
                   InputTable.names[j] \notin WhitespaceKeys

\* The values ["a", " a", "a ", "a"] in one column.
ScenarioC ==
    /\ InputRows = 4
    /\ Len(InputTable.names) = 1
    /\ InputTable.rows =
           << <<StrCell(<<"a">>)>>, <<StrCell(<<" ", "a">>)>>,
              <<StrCell(<<"a", " ">>)>>, <<StrCell(<<"a">>)>> >>

Occurrences(l) ==
    Cardinality({j \in 1..Len(df.names) : df.names[j] = l})

\* How often a label is listed in duplicate_columns.
Listed(l) ==
    LET d == results.headers.duplicate_columns
    IN Cardinality({k \in 1..Len(d) : d[k] = l})

LoadCsvStep ==
    pc = "load" =>
        IF InputLoads
        THEN /\ df' = InputTable
             /\ pc' = "basic_info"
             /\ outcome' = NoOutcome
        ELSE /\ df' = df
             /\ pc' = "failed"
             /\ outcome'.kind = "raised"
             /\ outcome'.type = "CSVReadError"

C19_ReportNeverMissesAField ==
    /\ report.kind # "raised"
    /\ pc = "done" => FirstFailedRead(outcome.value) = <<>>

\* The field f of the file's validation section is there and holds a number
\* in [0, 100].
ThresholdInRange(f) ==
    /\ fs.kind = "mapping"
    /\ "validation" \in DOMAIN fs.content
    /\ f \in DOMAIN fs.content.validation
    /\ fs.content.validation[f].type = "int"
    /\ fs.content.validation[f].val >= 0
    /\ fs.content.validation[f].val <= 100

\* C20: load_config rejects with ConfigurationError every configuration in
\* which one of whitespace_threshold_pct, max_duplicate_pct, max_missing_pct
\* is missing, not a number or outside [0, 100]: a configuration it returns
\* has all three as numbers in [0, 100].
C20_ThresholdsInRangeOrRejected ==
    /\ pc = "configured" => \A f \in ThresholdFields : ThresholdInRange(f)
    /\ (pc # "load_config" /\ \E f \in ThresholdFields : ~ ThresholdInRange(f)) =>
           /\ pc = "config_failed"
           /\ outcome.kind = "raised"
           /\ outcome.type = "ConfigurationError"

\* The three gating errors.
GatingErrors ==
    {"DuplicateRowsExceededError", "MissingValuesExceededError",
     "WhiteSpacePollutionError"}

\* C21: each of the three gating errors is raised only after a log message
\* of level error carrying the text of the error has been emitted.
C21_GatingErrorLoggedAtErrorLevel ==
    ErrorType \in GatingErrors =>
        \E k \in 1..Len(log) :
            /\ log[k].level = "error"
            /\ log[k].msg = outcome.msg

\* C24: the shape in basic_info equals (number of rows, number of columns)
\* of the loaded table and its column list equals the table's columns in
\* order, from the moment it is gathered on, whichever later check passes
\* or fails.
C24_BasicInfoMatchesTable ==
    "basic_info" \in DOMAIN results =>
        /\ results.basic_info.shape = <<InputRows, Len(InputTable.names)>>
        /\ results.basic_info.columns = InputTable.names
        /\ Len(results.basic_info.dtypes) = Len(InputTable.names)

C24_Witness ==
    /\ pc = "failed"
    /\ ErrorType = "MissingValuesExceededError"
    /\ results.basic_info.shape = <<2, 1>>
    /\ results.basic_info.columns = <<StrLabel("x")>>

\* Some label of the frame occurs more than once.
SomeLabelRepeated ==
    \E j, k \in 1..Len(df.names) : j < k /\ df.names[j] = df.names[k]

ErrorPcts ==
    CASE ErrorType = "DuplicateRowsExceededError" -> {outcome.msg[2]}
      [] ErrorType \in {"MissingValuesExceededError", "WhiteSpacePollutionError"} ->
             {outcome.msg[2][k].pct : k \in 1..Len(outcome.msg[2])}
      [] OTHER -> {}

\* C26: every percentage the engine computes lies in [0, 100]; for a table
\* with at least one row duplicate_count is at most total_rows - 1, so
\* duplicate_pct is strictly below 100; hence the duplicate gate never fails
\* with max_duplicate_pct >= 100 and no per-column gate fails with a
\* threshold of 100.
C26_PercentagesWithinRange ==
    /\ \A p \in ReportedPcts \cup ErrorPcts :
           p.den > 0 /\ p.num >= 0 /\ p.num <= 100 * p.den
    /\ (Ran("duplicates") /\ InputRows >= 1) =>
           /\ InputDuplicateCount <= InputRows - 1
           /\ ReportedDuplicatePct.num < 100 * ReportedDuplicatePct.den
           /\ ErrorType # "DuplicateRowsExceededError" =>
                  results.duplicates.count <= InputRows - 1
    /\ config.validation.max_duplicate_pct >= 100 =>
           ErrorType # "DuplicateRowsExceededError"
    /\ config.validation.max_missing_pct = 100 =>
           ErrorType # "MissingValuesExceededError"
    /\ config.validation.whitespace_threshold_pct = 100 =>
           ErrorType # "WhiteSpacePollutionError"

C26_Witness ==
    /\ pc = "done"
    /\ InputRows = 4
    /\ config.validation.whitespace_threshold_pct = 100
    /\ results.duplicates.count = 3
    /\ PctEq(results.duplicates.percentage, 75)
    /\ Len(results.whitespace) = 1
    /\ PctEq(results.whitespace[1].pct, 100)

\* C27: the empty-data findings and the missing-value gate are consistent:
\* in a result validate_all returns for a table with at least one row and
\* max_missing_pct below 100, empty_columns is empty (a fully empty column
\* is 100% missing and fails the gate) and every column's missing count,
\* and so its missing percentage, is at least that of empty_row_count rows.
C27_EmptyDataConsistentWithMissingGate ==
    (/\ outcome.kind = "returned"
     /\ InputRows >= 1
     /\ config.validation.max_missing_pct < 100) =>
        LET r == outcome.value IN
        /\ r.empty_data.empty_columns = <<>>
        /\ \A j \in InputCols :
               /\ InputMissingCount(j) >= r.empty_data.empty_row_count
               /\ r.missing_values[j].pct.num * InputRows
                      >= r.empty_data.empty_row_count * 100 * r.missing_values[j].pct.den

C27_Witness ==
    /\ outcome.kind = "returned"
    /\ InputRows = 2
    /\ Len(InputTable.names) = 2
    /\ config.validation.max_missing_pct = 50
    /\ outcome.value.empty_data.empty_row_count = 1
    /\ outcome.value.empty_data.empty_columns = <<>>
    /\ PctEq(outcome.value.missing_values[1].pct, 50)

\* C28: the renderer's verdicts agree with the engine's gates: for every
\* result validate_all returned, rendered with the same configuration, the
\* duplicates section reads PASSED and the summary lists no duplicate-row,
\* missing-value or whitespace issue; the issues of the report of a passed
\* run are about empty columns and empty rows only.
C28_RendererAgreesWithGates ==
    /\ outcome.kind = "returned" =>
           /\ DuplicatesVerdict(outcome.value, config) = "PASSED"
           /\ GateIssues(outcome.value, config) = <<>>
    /\ report.kind = "returned" =>
           /\ report.value.duplicates = "PASSED"
           /\ \A k \in 1..Len(report.value.issues) :
                  report.value.issues[k][1] \in {"Empty columns", "Empty rows"}

C28_Witness ==
    /\ pc = "reported"
    /\ report.kind = "returned"
    /\ report.value.duplicates = "PASSED"
    /\ PctEq(outcome.value.duplicates.percentage, 50)
    /\ config.validation.max_duplicate_pct = 50
    /\ report.value.issues = <<>>

\* The kinds the taxonomy names for files, validation and reports.
FileKinds == {"CSVNotFoundError", "CSVReadError", "InvalidCSVFormatError"}
ValidationKinds == GatingErrors
NamedKinds == FileKinds \cup ValidationKinds \cup {"ReportGenerationError"}

\* C23: every file-related, validation-related and report-related error
\* kind is a sub-kind of the root CSVHealthTrackerError, so a handler for
\* the root catches each of them; a handler for one specific kind catches
\* that kind and none of the other named kinds; the handlers for the file
\* and the validation family catch exactly their own members.
C23_RootCatchesAllSiblingsNone ==
    (pc \in {"caught", "propagated"} /\ outcome.type \in NamedKinds) =>
        /\ caller.handler = "CSVHealthTrackerError" => pc = "caught"
        /\ caller.handler \in NamedKinds =>
               (pc = "caught" <=> caller.handler = outcome.type)
        /\ caller.handler = "CSVFileError" =>
               (pc = "caught" <=> outcome.type \in FileKinds)
        /\ caller.handler = "ValidationError" =>
               (pc = "caught" <=> outcome.type \in ValidationKinds)

C23_Witness ==
    /\ pc = "propagated"
    /\ caller.handler = "MissingValuesExceededError"
    /\ outcome.type = "DuplicateRowsExceededError"

\* The configuration file holds the three sections with numeric thresholds,
\* that of the missing values in [0, 100].
MainConfigValid ==
    /\ caller.config_file.kind = "mapping"
    /\ \A f \in ThresholdFields : caller.config_file.content.validation[f].type = "int"

\* C22: main returns 0 exactly when a file argument was given and loading
\* the configuration, setting up the logger, the validation and the
\* generation and saving of the report all succeeded; it returns 1 in every
\* other case (no argument, configuration error, an error of the taxonomy,
\* keyboard interrupt, any unexpected error), never another value, and no
\* error leaves it.
C22_ExitCodeZeroIffAllSucceeded ==
    /\ pc # "escaped"
    /\ pc # "exited" => caller.exit_code = <<>>
    /\ pc = "exited" =>
           /\ caller.exit_code \in {<<0>>, <<1>>}
           /\ caller.exit_code = <<0>> <=>
                  (/\ caller.argv
                   /\ MainConfigValid
                   /\ caller.log_dir_ok
                   /\ outcome.kind = "returned"
                   /\ InputPassesGate /\ InputLoads
                   /\ caller.output_dir_ok
                   /\ report.kind = "returned"
                   /\ caller.save_ok
                   /\ caller.handler = "none")
    /\ ~ ENABLED NextMain => pc = "exited"

C22_Witness ==
    /\ pc = "exited"
    /\ caller.exit_code = <<0>>
    /\ InputRows = 2

\* The error a fresh validator raises on the path, the file content and the
\* configuration of the call, "none" when it returns.
FreshError ==
    IF fs.kind = "missing" THEN "CSVNotFoundError"
    ELSE IF ~ InputPassesGate THEN "InvalidCSVFormatError"
    ELSE IF ~ InputLoads THEN "CSVReadError"
    ELSE IF DuplicatesExceed THEN "DuplicateRowsExceededError"
    ELSE IF SomeMissingExceeds THEN "MissingValuesExceededError"
    ELSE IF SomeWhitespaceExceeds THEN "WhiteSpacePollutionError"
    ELSE "none"

\* The result a fresh validator returns on them.
FreshResult ==
    [basic_info |-> [filename |-> PathOf(fs),
                     shape |-> <<InputRows, Cardinality(InputCols)>>,
                     columns |-> InputTable.names,
                     dtypes |-> Dtypes(InputTable)],
     headers |-> ColumnHeaders(InputTable),
     empty_data |-> EmptyRowsColumns(InputTable),
     duplicates |-> [count |-> InputDuplicateCount,
                     percentage |-> DuplicatePct(InputTable)],
     missing_values |-> MissingByColumn(InputTable, config.validation.max_missing_pct),
     whitespace |-> WhitespaceByColumn(InputTable,
                                       config.validation.whitespace_threshold_pct)]

\* The validator still holds a table or a path other than those of the call.
HoldsStale ==
    \/ df # None /\ (~ InputLoads \/ df # InputTable)
    \/ file_path # None /\ file_path # PathOf(fs)

\* C29: the outcome of a validate_all call, result or error kind, is that
\* of a fresh validator on the same path, file content and configuration,
\* whatever earlier calls on the same validator did; and every check of a
\* run works on the table and the path of that run, never on those an
\* earlier run stored.
C29_OutcomeIndependentOfEarlierCalls ==
    /\ Terminal =>
           /\ ErrorType = FreshError
           /\ FreshError = "none" => outcome = Returned(FreshResult)
    /\ pc \in CheckStages =>
           /\ InputPassesGate /\ InputLoads
           /\ df = InputTable
           /\ file_path = PathOf(fs)

\* A later call has failed on a path that does not load while the validator
\* still holds the table and the path an earlier call stored.
C29_Witness ==
    /\ caller.calls = 2
    /\ pc = "failed"
    /\ df # None /\ file_path # None
    /\ HoldsStale
    /\ ErrorType = "CSVReadError"

\* The error kinds validate_all is said to fail with.
SixKinds ==
    {"CSVNotFoundError", "InvalidCSVFormatError", "CSVReadError",
     "DuplicateRowsExceededError", "MissingValuesExceededError",
     "WhiteSpacePollutionError"}

\* C30: every validate_all call terminates, by returning or by raising,
\* and when it raises the error is one of the six kinds NotFound,
\* InvalidFormat, ReadError, DuplicateRowsExceeded, MissingValuesExceeded,
\* WhitespacePollutionExceeded, for any path and any file content.
C30_TerminatesWithOneOfSixKinds ==
    /\ <>Terminal
    /\ [](pc = "failed" => ErrorType \in SixKinds)

====
